---- MODULE Spec2Model ----
(***************************************************************************)
(* Model of src/SpreadArbitrage.py: the basis-arbitrage polling engine.    *)
(*                                                                         *)
(* Units.  Money is counted in 1e-5 USDT (Usdt(1) = 100000), prices in     *)
(* whole USDT, quantities in whole base units, fee rates in 1e-5, time in  *)
(* seconds.  In these units every product price*quantity*(1 +/- fee) is an *)
(* integer, so round(x, 8) of the source leaves each value as it is; the   *)
(* arithmetic below is the exact arithmetic of the source's formulas.      *)
(* A percentage is kept as the fraction [num, den] (den > 0) and compared  *)
(* by cross-multiplication.  A SQL NULL / Python None is the empty         *)
(* sequence, a present value v is <<v>>.                                   *)
(*                                                                         *)
(* Tables are sequences ordered by their SERIAL id (row i has id i).       *)
(***************************************************************************)
EXTENDS Integers, Sequences, FiniteSets, TLC

VARIABLES
    SIMULATION,               \* line 12: the mode flag
    STARTING_BALANCE,         \* line 16: global, reassigned by initialize_balance in live mode
    now,                      \* datetime.utcnow(), seconds
    open_trades,              \* table open_trades
    profit_tracking,          \* table profit_tracking
    arbitrage_opportunities,  \* table arbitrage_opportunities, by symbol (UNIQUE)
    pc,                       \* position of main_loop
    sym_idx,                  \* index of the symbol being processed in the cycle
    pending,                  \* rows fetched by check_open_positions still to visit
    cycle,                    \* main_loop's cycle counter
    update_calls,             \* history: the calls of update_profit_tracking made so far
    gateway_log,              \* history: state-changing gateway operations submitted
    threshold,                \* the threshold argument handed to analyze_and_store
    quote,                    \* analyze_and_store's locals (spot_price, futures_price), line 608
    raw_tickers,              \* the tickers fetch_prices got for them (lines 171-172)
    last_check,               \* locals of the latest iteration of check_open_positions' loop
    last_close,               \* locals of the close_trade call made by the latest handler
    sized,                    \* arguments and result of a call of calculate_position_size
    api_call,                 \* the frame of a call of safe_api_call
    caught,                   \* history: the exceptions main_loop caught (line 735)
    conn_closed,              \* cursor.close() and conn.close() of lines 747-748 done
    market                    \* the ticker pairs the gateway can answer during the run

vars == <<SIMULATION, STARTING_BALANCE, now, open_trades, profit_tracking,
          arbitrage_opportunities, pc, sym_idx, pending, cycle, update_calls,
          gateway_log, threshold, quote, raw_tickers, last_check, last_close, sized,
          api_call, caught, conn_closed, market>>

---------------------------------------------------------------------------
\* Bounds of the model
MaxCycles == 2
MaxTrades == 2
MaxTime == 3600
MaxLedgerCalls == 3
MaxLedgerDays == 2
MaxSized == 1

\* Program constants (lines 13-19), in the units above
SPREAD_NUM == 3
SPREAD_DEN == 100
RISK_PER_TRADE == 1
FUTURES_FEE == 45
MARGIN_FEE == 75
MAX_TRADE_DURATION == 1800
SECONDS_PER_DAY == 86400
MAX_RETRIES == 3

Usdt(n) == n * 100000
FeeOne == Usdt(1)
MIN_POSITION_SIZE == Usdt(10)
CONFIGURED_STARTING_BALANCE == Usdt(1000)

None == <<>>
Some(v) == <<v>>

Frac(n, d) == [num |-> n, den |-> d]
FracGT(a, b) == a.num * b.den > b.num * a.den
FracLT(a, b) == a.num * b.den < b.num * a.den
FracNeg(a) == [num |-> 0 - a.num, den |-> a.den]
Max(a, b) == IF a >= b THEN a ELSE b

\* main_loop's tracked symbols (lines 711-720), two of the allow-list
Symbols == <<"BTCUSDT", "ETHUSDT">>
SymbolSet == {Symbols[i] : i \in 1..Len(Symbols)}

\* What the gateway can answer.  A ticker pair is <<spot ticker, futures ticker>>,
\* either of them None when safe_api_call gave up.  A ticker is its 'price' entry:
\* <<p>> when float() reads the price p from it, <<>> when float() raises.
Quotes == {<<100, 101>>, <<102, 101>>, <<102, 102>>}
Ticker(p) == Some(Some(p))
Unparsable == Some(<<>>)
TickerPairs(quotes) == {<<Ticker(q[1]), Ticker(q[2])>> : q \in quotes}
FailedFetches == {<<None, Ticker(100)>>, <<Ticker(100), None>>, <<None, None>>,
                  <<Ticker(100), Unparsable>>}
Tickers == market

\* LOT_SIZE stepSize reported by the exchange for each symbol (get_lot_size)
ExchangeStepSize(symbol) == IF symbol = "BTCUSDT" THEN 1 ELSE 2

\* Free USDT the real spot wallet can report in live mode
RealBalances == {0, Usdt(1000)}

---------------------------------------------------------------------------
\* safe_api_call (lines 133-142)

\* the exception classes of the except clause of line 139, and classes the
\* gateway client raises that are not among them (python-binance's
\* BinanceRequestException, the RequestException family of the requests library)
CaughtErrors == {"BinanceAPIException", "ConnectionError", "TimeoutError"}
OtherErrors == {"BinanceRequestException", "RequestException"}
\* what one invocation of the wrapped operation can do: answer, or raise
Outcomes == {"ok"} \cup CaughtErrors \cup OtherErrors
\* the operations fetch_prices hands to safe_api_call (lines 171-172)
ApiFuncs == {"get_symbol_ticker", "futures_symbol_ticker"}

\* the frame on entry (lines 135-136)
ApiFrame(func) ==
    [func |-> func, attempt |-> 0, caught |-> <<>>, slept |-> 0,
     status |-> "running", result |-> None, exception |-> None]

\* one pass of the loop body (lines 137-141) on a given outcome of func; the
\* pass that ends the loop goes on to line 142
SafeApiAttempt_RetryAll(frame, outcome) ==
    IF outcome = "ok"
    THEN [frame EXCEPT !.attempt = @ + 1, !.status = "returned",
                       !.result = Some("response")]
    ELSE [frame EXCEPT !.attempt = @ + 1,
                       !.caught = Append(@, outcome),
                       !.slept = @ + 2 ^ frame.attempt,
                       !.status = IF frame.attempt + 1 = MAX_RETRIES
                                  THEN "returned" ELSE "running"]
SafeApiAttempt(frame, outcome) ==
    IF outcome = "ok"
    THEN [frame EXCEPT !.attempt = @ + 1, !.status = "returned",
                       !.result = Some("response")]
    ELSE IF outcome \in CaughtErrors
    THEN [frame EXCEPT !.attempt = @ + 1,
                       !.caught = Append(@, outcome),
                       !.slept = @ + 2 ^ frame.attempt,
                       !.status = IF frame.attempt + 1 = MAX_RETRIES
                                  THEN "returned" ELSE "running"]
    ELSE [frame EXCEPT !.attempt = @ + 1, !.status = "raised",
                       !.exception = Some(outcome)]

---------------------------------------------------------------------------
\* fetch_prices (lines 167-181): both legs or nothing
Parses(ticker) == ticker # None /\ ticker[1] # <<>>
fetch_prices_PerLeg(spot_ticker, futures_ticker) ==
    <<IF Parses(spot_ticker) THEN Some(spot_ticker[1][1]) ELSE None,
      IF Parses(futures_ticker) THEN Some(futures_ticker[1][1]) ELSE None>>
fetch_prices(spot_ticker, futures_ticker) ==
    IF spot_ticker = None \/ futures_ticker = None
    THEN <<None, None>>
    ELSE IF spot_ticker[1] = <<>> \/ futures_ticker[1] = <<>>
    THEN <<None, None>>
    ELSE <<Some(spot_ticker[1][1]), Some(futures_ticker[1][1])>>

QuoteAbsent(q) == q[1] = None \/ q[2] = None

\* lines 612-613 (and 572-573): spread_percent = (futures - spot) / spot * 100
SpreadPercent(spot_price, futures_price) ==
    Frac((futures_price - spot_price) * 100, spot_price)

\* lines 615-619: the action label
Classify_Inclusive(spread_percent, t) ==
    IF ~FracLT(spread_percent, t) THEN "BUY_MARGIN_SHORT"
    ELSE IF ~FracGT(spread_percent, FracNeg(t)) THEN "BUY_FUTURES"
    ELSE "HOLD"
Classify(spread_percent, t) ==
    IF FracGT(spread_percent, t) THEN "BUY_MARGIN_SHORT"
    ELSE IF FracLT(spread_percent, FracNeg(t)) THEN "BUY_FUTURES"
    ELSE "HOLD"

\* lines 623 and 649: which branch of analyze_and_store the label selects
OpenSide_Swapped(action) ==
    IF action = "BUY_MARGIN_LONG" THEN Some("SHORT")
    ELSE IF action = "BUY_FUTURES" THEN Some("LONG")
    ELSE None
OpenSide(action) ==
    IF action = "BUY_MARGIN_LONG" THEN Some("LONG")
    ELSE IF action = "BUY_FUTURES" THEN Some("SHORT")
    ELSE None

\* has_open_position (lines 536-545)
has_open_position(trades, symbol) ==
    \E i \in 1..Len(trades) : trades[i].symbol = symbol /\ ~trades[i].closed

\* lines 627 and 653: the condition under which the legs are submitted
SubmitsLegs_WhateverMode(sim, trades, symbol) == has_open_position(trades, symbol)
SubmitsLegs(sim, trades, symbol) == ~sim /\ has_open_position(trades, symbol)

\* get_available_balance in simulated mode (lines 205-208), also lines 493-495
LastBalance(rows, starting) ==
    IF rows = <<>> THEN starting ELSE rows[Len(rows)].current_balance

\* calculate_position_size (lines 280-291); every step size of the model is > 0.
\* risk_amount = balance * RISK_PER_TRADE / 2 in money units, so risk_amount / price
\* in base units is balance * RISK_PER_TRADE / (2 * price * Usdt(1)).
calculate_position_size_NoStep(balance, price, step_size) ==
    IF balance * RISK_PER_TRADE < 2 * MIN_POSITION_SIZE
    THEN 0
    ELSE (balance * RISK_PER_TRADE) \div (2 * price * FeeOne)
calculate_position_size(balance, price, step_size) ==
    IF balance * RISK_PER_TRADE < 2 * MIN_POSITION_SIZE
    THEN 0
    ELSE ((balance * RISK_PER_TRADE) \div (2 * price * FeeOne * step_size)) * step_size

\* simulate_trade (lines 293-323); close_trade never hands it a None price
simulate_trade(entry_price, exit_price, quantity, entry_fee, exit_fee, trade_type) ==
    IF trade_type \in {"SPOT_LONG", "FUTURES_LONG"}
    THEN exit_price * quantity * (FeeOne - exit_fee)
         - entry_price * quantity * (FeeOne + entry_fee)
    ELSE IF trade_type \in {"SPOT_SHORT", "FUTURES_SHORT"}
    THEN entry_price * quantity * (FeeOne - entry_fee)
         - exit_price * quantity * (FeeOne + exit_fee)
    ELSE 0

---------------------------------------------------------------------------
\* The ledger: update_profit_tracking (lines 484-534)

MinOf(S) == CHOOSE x \in S : \A y \in S : x <= y

\* line 497
NewBalance_NoFloor(last_balance, profit_change) == last_balance + profit_change
NewBalance(last_balance, profit_change) == Max(0, last_balance + profit_change)

\* line 499; profit_usdt / starting * 100 is kept as profit_usdt / (starting / 100),
\* every starting balance of the model being a multiple of 100 money units; the
\* value 0 is always kept as 0/1
ProfitPercent(profit_usdt, starting) ==
    IF starting > 0 /\ profit_usdt # 0
    THEN Frac(profit_usdt, starting \div 100) ELSE Frac(0, 1)

\* get_period_profit (lines 502-510)
get_period_profit(rows, new_balance, t_now, days) ==
    LET inwin == {i \in 1..Len(rows) : rows[i].timestamp >= t_now - days * SECONDS_PER_DAY}
    IN  IF inwin = {} THEN 0 ELSE new_balance - rows[MinOf(inwin)].current_balance

\* the values of the INSERT of lines 516-529
Snapshot(rows, starting, profit_change, t_now) ==
    LET new_balance == NewBalance(LastBalance(rows, starting), profit_change)
        profit_usdt == new_balance - starting
    IN  [id              |-> 0,
         timestamp       |-> t_now,
         current_balance |-> new_balance,
         profit_usdt     |-> profit_usdt,
         profit_percent  |-> ProfitPercent(profit_usdt, starting),
         daily_profit    |-> get_period_profit(rows, new_balance, t_now, 1),
         weekly_profit   |-> get_period_profit(rows, new_balance, t_now, 7),
         monthly_profit  |-> get_period_profit(rows, new_balance, t_now, 30)]

\* INSERT ... ON CONFLICT ON CONSTRAINT profit_tracking_unique DO UPDATE
\* (lines 516-529, the constraint of lines 120-127: UNIQUE (current_balance)).
\* A row holding the same current_balance is overwritten in place and keeps its
\* id; otherwise the row is appended under the next id.
Upsert(rows, row) ==
    IF \E i \in 1..Len(rows) : rows[i].current_balance = row.current_balance
    THEN LET i == CHOOSE j \in 1..Len(rows) : rows[j].current_balance = row.current_balance
         IN  [rows EXCEPT ![i] = [row EXCEPT !.id = i]]
    ELSE Append(rows, [row EXCEPT !.id = Len(rows) + 1])

update_profit_tracking(rows, starting, profit_change, t_now) ==
    Upsert(rows, Snapshot(rows, starting, profit_change, t_now))

\* get_available_balance (lines 197-214) for market_type MARGIN
get_available_balance(sim, rows, starting, real_spot) ==
    IF sim THEN LastBalance(rows, starting) ELSE real_spot

\* the history entry of one call of update_profit_tracking: its argument, the
\* trade whose closure made the call (0: none) and the new_balance of line 497
LedgerCall(rows, starting, profit_change, trade_id) ==
    [profit_change |-> profit_change, trade_id |-> trade_id,
     new_balance |-> NewBalance(LastBalance(rows, starting), profit_change)]

---------------------------------------------------------------------------
\* open_trades

\* create_open_trade (lines 325-342): the INSERT and the column defaults of lines 61-85
create_open_trade(trades, symbol, market_type, side, entry_price, quantity, t_now) ==
    Append(trades,
           [id              |-> Len(trades) + 1,
            symbol          |-> symbol,
            market_type     |-> market_type,
            side            |-> side,
            entry_price     |-> entry_price,
            quantity        |-> quantity,
            timestamp_open  |-> t_now,
            close_price     |-> None,
            timestamp_close |-> None,
            profit_usdt     |-> 0,
            closed          |-> FALSE])

\* SELECT id ... WHERE closed=FALSE (lines 554-559), in id order
RECURSIVE OpenIdsFrom(_, _)
OpenIdsFrom(trades, i) ==
    IF i > Len(trades) THEN <<>>
    ELSE IF trades[i].closed THEN OpenIdsFrom(trades, i + 1)
    ELSE <<i>> \o OpenIdsFrom(trades, i + 1)
OpenIds(trades) == OpenIdsFrom(trades, 1)

\* close_trade, lines 364-440: the branch taken for a row
HasCloseBranch(row) == row.market_type \in {"MARGIN", "FUTURES"}
    /\ (row.market_type = "MARGIN" => row.side \in {"LONG", "SHORT"})
TradeType(row) ==
    IF row.market_type = "MARGIN" /\ row.side = "LONG" THEN "MARGIN_LONG"
    ELSE IF row.market_type = "MARGIN" /\ row.side = "SHORT" THEN "SPOT_SHORT"
    ELSE IF row.side = "LONG" THEN "FUTURES_LONG" ELSE "FUTURES_SHORT"
ExitPrice_AlwaysSpot(row, spot_price, futures_price) == spot_price
ExitPrice(row, spot_price, futures_price) ==
    IF row.market_type = "MARGIN" THEN spot_price ELSE futures_price
FeeRate(row) == IF row.market_type = "MARGIN" THEN MARGIN_FEE ELSE FUTURES_FEE

\* line 442
CloseProfit(row, spot_price, futures_price) ==
    simulate_trade(row.entry_price, ExitPrice(row, spot_price, futures_price),
                   row.quantity, FeeRate(row), FeeRate(row), TradeType(row))

\* the state-changing gateway operations of close_trade in live mode (lines 370-438);
\* sweep: whether a positive free USDT balance was reported and transferred back
CloseOrders(row, sweep) ==
    (IF row.market_type = "MARGIN" /\ row.side = "LONG"
       THEN {<<"margin_sell", row.symbol>>}
     ELSE IF row.market_type = "MARGIN"
       THEN {<<"margin_buy", row.symbol>>, <<"repay_loan", row.symbol>>}
     ELSE IF row.side = "LONG"
       THEN {<<"futures_sell", row.symbol>>}
       ELSE {<<"futures_buy", row.symbol>>})
    \cup (IF sweep THEN {<<"transfer_to_spot", row.symbol>>} ELSE {})

\* the UPDATE of lines 446-450
ClosedRow(row, exit_price, profit, t_now) ==
    [row EXCEPT !.close_price = Some(exit_price), !.timestamp_close = Some(t_now),
                !.profit_usdt = profit, !.closed = TRUE]

\* SELECT ... FROM open_trades WHERE id=%s AND closed=FALSE (lines 351-357)
SelectOpenRow_AnyRow(trades, trade_id) ==
    IF trade_id \in 1..Len(trades) THEN Some(trades[trade_id]) ELSE None
SelectOpenRow(trades, trade_id) ==
    IF trade_id \in 1..Len(trades) /\ ~trades[trade_id].closed
    THEN Some(trades[trade_id]) ELSE None

\* the ledger calls close_trade makes for one closure (line 454)
CallsOnClose_Skipped(calls, rows, starting, profit, trade_id) == calls
CallsOnClose(calls, rows, starting, profit, trade_id) ==
    Append(calls, LedgerCall(rows, starting, profit, trade_id))

\* close_trade (lines 344-459) as a function of the database and the gateway's
\* answers: the tables, the history of ledger calls and of gateway operations
close_trade_ClosesUnpriced(db, trade_id, tickers, sweep, sim, starting, t_now) ==
    LET q == fetch_prices(tickers[1], tickers[2])
    IN  IF SelectOpenRow(db.trades, trade_id) = None THEN db
        ELSE IF ~HasCloseBranch(db.trades[trade_id]) THEN db
        ELSE LET row == db.trades[trade_id]
                 profit == IF QuoteAbsent(q) THEN 0
                           ELSE CloseProfit(row, q[1][1], q[2][1])
                 closed_row ==
                     IF QuoteAbsent(q)
                     THEN [row EXCEPT !.timestamp_close = Some(t_now), !.closed = TRUE]
                     ELSE ClosedRow(row, ExitPrice(row, q[1][1], q[2][1]), profit, t_now)
             IN  [trades |-> [db.trades EXCEPT ![trade_id] = closed_row],
                  rows   |-> update_profit_tracking(db.rows, starting, profit, t_now),
                  calls  |-> CallsOnClose(db.calls, db.rows, starting, profit, trade_id),
                  log    |-> IF sim THEN db.log ELSE db.log \cup CloseOrders(row, sweep)]
close_trade(db, trade_id, tickers, sweep, sim, starting, t_now) ==
    LET q == fetch_prices(tickers[1], tickers[2])
    IN  IF SelectOpenRow(db.trades, trade_id) = None THEN db
        ELSE IF QuoteAbsent(q) THEN db
        ELSE IF ~HasCloseBranch(db.trades[trade_id]) THEN db
        ELSE LET row == db.trades[trade_id]
                 exit_price == ExitPrice(row, q[1][1], q[2][1])
                 profit == CloseProfit(row, q[1][1], q[2][1])
             IN  [trades |-> [db.trades EXCEPT ![trade_id] =
                                  ClosedRow(row, exit_price, profit, t_now)],
                  rows   |-> update_profit_tracking(db.rows, starting, profit, t_now),
                  calls  |-> CallsOnClose(db.calls, db.rows, starting, profit, trade_id),
                  log    |-> IF sim THEN db.log ELSE db.log \cup CloseOrders(row, sweep)]

\* the (spot_price, futures_price) close_trade holds after line 360: nothing when
\* it returned at line 357, before the fetch
CloseQuote(trades, trade_id, tickers) ==
    IF SelectOpenRow(trades, trade_id) = None THEN <<None, None>>
    ELSE fetch_prices(tickers[1], tickers[2])

\* check_open_positions, lines 561-590: whether the loop body calls close_trade
TimedOut_Inclusive(row, t_now) == t_now - row.timestamp_open >= MAX_TRADE_DURATION
TimedOut(row, t_now) == t_now - row.timestamp_open > MAX_TRADE_DURATION
SpreadReversed(row, q) ==
    /\ ~QuoteAbsent(q)
    /\ \/ /\ row.market_type = "MARGIN" /\ row.side = "LONG"
          /\ ~FracGT(SpreadPercent(q[1][1], q[2][1]), Frac(0, 1))
       \/ /\ row.market_type = "MARGIN" /\ row.side = "SHORT"
          /\ ~FracLT(SpreadPercent(q[1][1], q[2][1]), Frac(0, 1))
\* lines 565-585 without the test of the hold time
AttemptsClose_SpreadOnly(row, q, t_now) == SpreadReversed(row, q)
\* lines 565 and 572-585: a timed-out row, or one whose spread has reversed
AttemptsClose(row, q, t_now) == TimedOut(row, t_now) \/ SpreadReversed(row, q)
\* the (spot_price, futures_price) of line 568: not fetched for a timed-out row
CheckQuote(row, tickers, t_now) ==
    IF TimedOut(row, t_now) THEN <<None, None>> ELSE fetch_prices(tickers[1], tickers[2])

\* the gateway reads made in live mode only: the free USDT swept back after a
\* close (lines 380-385, 405-410) and the wallet balance (lines 209-214)
SweepAnswers(sim) == IF sim THEN {FALSE} ELSE BOOLEAN
BalanceAnswers(sim) == IF sim THEN {0} ELSE RealBalances
\* the tickers a fetch_prices call gets, when the call is made
FetchAnswers(made) == IF made THEN Tickers ELSE {<<None, None>>}

DB == [trades |-> open_trades, rows |-> profit_tracking,
       calls |-> update_calls, log |-> gateway_log]

---------------------------------------------------------------------------
\* main_loop (lines 703-749)

TickSteps == {1800}

\* where main_loop would go if the ledger refresh stood inside the for loop
AfterSymbol_RefreshPerSymbol(rest) ==
    /\ pending' = rest
    /\ sym_idx' = sym_idx
    /\ pc' = IF rest # <<>> THEN "check" ELSE "refresh"
\* where main_loop goes once check_open_positions has `rest` left to visit
AfterSymbol(rest) ==
    /\ pending' = rest
    /\ IF rest # <<>>
       THEN pc' = "check" /\ sym_idx' = sym_idx
       ELSE IF sym_idx < Len(Symbols)
            THEN pc' = "analyze" /\ sym_idx' = sym_idx + 1
            ELSE pc' = "refresh" /\ sym_idx' = sym_idx

\* the row written by lines 679-696, with the spread taken over the futures price
OpportunityRow_OverFutures(symbol, spot_price, futures_price, action, open_trade_id, t_now) ==
    [timestamp      |-> t_now,
     symbol         |-> symbol,
     spot_price     |-> spot_price,
     futures_price  |-> futures_price,
     spread_percent |-> Frac((futures_price - spot_price) * 100, futures_price),
     action         |-> action,
     trade_executed |-> (action # "HOLD"),
     open_trade_id  |-> open_trade_id]
\* the row written by lines 679-696
OpportunityRow(symbol, spot_price, futures_price, action, open_trade_id, t_now) ==
    [timestamp      |-> t_now,
     symbol         |-> symbol,
     spot_price     |-> spot_price,
     futures_price  |-> futures_price,
     spread_percent |-> SpreadPercent(spot_price, futures_price),
     action         |-> action,
     trade_executed |-> (action # "HOLD"),
     open_trade_id  |-> open_trade_id]

\* the state-changing gateway operations of an opening (lines 628-645, 654-675)
OpenOrders(symbol, side) ==
    IF side = "LONG"
    THEN {<<"transfer_to_margin", symbol>>, <<"margin_buy", symbol>>,
          <<"futures_sell", symbol>>}
    ELSE {<<"transfer_to_margin", symbol>>, <<"margin_loan", symbol>>,
          <<"margin_sell", symbol>>, <<"futures_buy", symbol>>}

\* initialize_balance (lines 461-482), then the exchange-info read of lines 706-709
InitializeBalance ==
    /\ pc = "init"
    /\ \E real_spot \in RealBalances, info_ok \in BOOLEAN :
          LET init_balance == IF SIMULATION THEN STARTING_BALANCE ELSE real_spot
          IN  /\ IF Len(profit_tracking) = 0
                 THEN /\ STARTING_BALANCE' = init_balance
                      /\ profit_tracking' =
                            <<[id |-> 1, timestamp |-> now,
                               current_balance |-> init_balance,
                               profit_usdt |-> 0, profit_percent |-> Frac(0, 1),
                               daily_profit |-> 0, weekly_profit |-> 0,
                               monthly_profit |-> 0]>>
                 ELSE UNCHANGED <<STARTING_BALANCE, profit_tracking>>
              /\ pc' = IF info_ok THEN "analyze" ELSE "returned"
    /\ UNCHANGED <<SIMULATION, now, open_trades, arbitrage_opportunities, sym_idx,
                   pending, cycle, update_calls, gateway_log, threshold, quote,
                   raw_tickers, last_check, last_close, sized, api_call, caught, conn_closed, market>>

\* the rows check_open_positions would visit if it were called on an absent quote
AbsentQuoteCheck_Runs(trades) == OpenIds(trades)
\* line 610: on an absent quote analyze_and_store returns before line 701, so
\* check_open_positions has no row to visit
AbsentQuoteCheck(trades) == <<>>

\* analyze_and_store (lines 595-701) up to its call of check_open_positions, whose
\* SELECT of the non-closed rows (lines 554-559) is taken here
AnalyzeAndStore ==
    /\ pc = "analyze"
    /\ cycle <= MaxCycles
    /\ \E tickers \in Tickers, real_spot \in BalanceAnswers(SIMULATION) :
          LET symbol == Symbols[sym_idx]
              q == fetch_prices(tickers[1], tickers[2])
          IN  IF QuoteAbsent(q)
              THEN /\ quote' = q
                   /\ raw_tickers' = tickers
                   /\ AfterSymbol(AbsentQuoteCheck(open_trades))
                   /\ UNCHANGED <<open_trades, arbitrage_opportunities, gateway_log>>
              ELSE LET spot_price == q[1][1]
                       futures_price == q[2][1]
                       action == Classify(SpreadPercent(spot_price, futures_price),
                                          threshold)
                       side == OpenSide(action)
                       balance == get_available_balance(SIMULATION, profit_tracking,
                                                        STARTING_BALANCE, real_spot)
                       quantity == IF side = None THEN 0
                                   ELSE calculate_position_size(
                                            balance, spot_price, ExchangeStepSize(symbol))
                       opens == side # None /\ quantity > 0
                       trades1 == IF opens
                                  THEN create_open_trade(open_trades, symbol, "MARGIN",
                                                         side[1], spot_price, quantity, now)
                                  ELSE open_trades
                       open_trade_id == IF opens THEN Some(Len(trades1)) ELSE None
                   IN  /\ opens => Len(open_trades) < MaxTrades
                       /\ quote' = q
                       /\ raw_tickers' = tickers
                       /\ open_trades' = trades1
                       /\ gateway_log' =
                             IF opens /\ SubmitsLegs(SIMULATION, open_trades, symbol)
                             THEN gateway_log \cup OpenOrders(symbol, side[1])
                             ELSE gateway_log
                       /\ arbitrage_opportunities' =
                             [arbitrage_opportunities EXCEPT ![symbol] =
                                 Some(OpportunityRow(symbol, spot_price, futures_price,
                                                     action, open_trade_id, now))]
                       /\ AfterSymbol(OpenIds(trades1))
    /\ last_check' = None
    /\ last_close' = None
    /\ UNCHANGED <<SIMULATION, STARTING_BALANCE, now, profit_tracking, cycle,
                   update_calls, threshold, sized, api_call, caught, conn_closed, market>>

\* one iteration of the loop of check_open_positions (lines 561-590), with the
\* close_trade it may call
CheckOpenPosition ==
    /\ pc = "check"
    /\ pending # <<>>
    /\ \E tickers \in FetchAnswers(~TimedOut(open_trades[Head(pending)], now)),
          sweep \in SweepAnswers(SIMULATION) :
        \E close_tickers \in
              FetchAnswers(AttemptsClose(open_trades[Head(pending)],
                                         CheckQuote(open_trades[Head(pending)],
                                                    tickers, now), now)) :
          LET trade_id == Head(pending)
              row == open_trades[trade_id]
              q == CheckQuote(row, tickers, now)
              db == IF AttemptsClose(row, q, now)
                    THEN close_trade(DB, trade_id, close_tickers, sweep, SIMULATION,
                                     STARTING_BALANCE, now)
                    ELSE DB
          IN  /\ open_trades' = db.trades
              /\ profit_tracking' = db.rows
              /\ update_calls' = db.calls
              /\ gateway_log' = db.log
              /\ last_check' = Some([trade_id |-> trade_id,
                                     hold_time |-> now - row.timestamp_open,
                                     quote |-> q])
              /\ last_close' =
                    IF AttemptsClose(row, q, now)
                    THEN Some([trade_id |-> trade_id,
                               quote |-> CloseQuote(open_trades, trade_id, close_tickers)])
                    ELSE None
    /\ AfterSymbol(Tail(pending))
    /\ UNCHANGED <<SIMULATION, STARTING_BALANCE, now, arbitrage_opportunities, cycle,
                   threshold, quote, raw_tickers, sized, api_call, caught, conn_closed, market>>

\* the end of a cycle (lines 738-742): update_profit_tracking(0.0), next cycle
RefreshLedger ==
    /\ pc = "refresh"
    /\ profit_tracking' = update_profit_tracking(profit_tracking, STARTING_BALANCE, 0, now)
    /\ update_calls' = Append(update_calls,
                               LedgerCall(profit_tracking, STARTING_BALANCE, 0, 0))
    /\ cycle' = cycle + 1
    /\ pc' = "analyze"
    /\ sym_idx' = 1
    /\ last_check' = None
    /\ last_close' = None
    /\ UNCHANGED <<SIMULATION, STARTING_BALANCE, now, open_trades,
                   arbitrage_opportunities, pending, gateway_log, threshold, quote,
                   raw_tickers, sized, api_call, caught, conn_closed, market>>

\* time passes between two cycles (the sleep of line 742; a cycle itself is short
\* against the step of the clock)
Tick ==
    /\ pc = "refresh"
    /\ \E d \in TickSteps : now + d <= MaxTime /\ now' = now + d
    /\ UNCHANGED <<SIMULATION, STARTING_BALANCE, open_trades, profit_tracking,
                   arbitrage_opportunities, pc, sym_idx, pending, cycle, update_calls,
                   gateway_log, threshold, quote,
                   raw_tickers, last_check, last_close, sized, api_call, caught, conn_closed, market>>

\* the state after the module has been loaded against a fresh database
\* (lines 12-32, init_db of lines 35-131), but for the mode flag
LoadedIn(trades, t, tickers, starting) ==
    /\ STARTING_BALANCE = starting
    /\ now = 0
    /\ open_trades = trades
    /\ profit_tracking = <<>>
    /\ arbitrage_opportunities = [s \in SymbolSet |-> None]
    /\ pc = "init"
    /\ sym_idx = 1
    /\ pending = <<>>
    /\ cycle = 1
    /\ update_calls = <<>>
    /\ gateway_log = {}
    /\ threshold = t
    /\ quote = <<None, None>>
    /\ raw_tickers = <<None, None>>
    /\ last_check = None
    /\ last_close = None
    /\ sized = None
    /\ api_call = None
    /\ caught = <<>>
    /\ conn_closed = FALSE
    /\ market = tickers

LoadedWith(trades, t) ==
    LoadedIn(trades, t, TickerPairs(Quotes) \cup FailedFetches, CONFIGURED_STARTING_BALANCE)
Loaded == LoadedWith(<<>>, Frac(SPREAD_NUM, SPREAD_DEN))

\* line 12 as written: SIMULATION = True
Init == SIMULATION = TRUE /\ Loaded

Next ==
    \/ InitializeBalance
    \/ AnalyzeAndStore
    \/ CheckOpenPosition
    \/ RefreshLedger
    \/ Tick

Spec == Init /\ [][Next]_vars

\* the same program with line 12 set to False (live trading)
InitLive == SIMULATION = FALSE /\ Loaded
SpecLive == InitLive /\ [][Next]_vars

---------------------------------------------------------------------------
\* Exceptions and the interrupt in main_loop (lines 724-749)

MaxFaults == 1

\* exceptions analyze_and_store lets escape before it has written anything: the
\* SELECT of get_available_balance (line 206, under calculate_position_size), the
\* division of line 612 on a zero spot price, a class safe_api_call does not catch
AnalysisFaults == {"psycopg2.Error", "ZeroDivisionError", "BinanceRequestException"}
\* classes that derive from BaseException only
NotExceptions == {"KeyboardInterrupt", "SystemExit"}

\* an except clause that names the gateway's classes only, as line 139 does
CaughtByLoop_ApiErrorsOnly(e) == e \in CaughtErrors
\* line 734: except Exception
CaughtByLoop(e) == e \notin NotExceptions

\* a finally clause that leaves the connection as it is
Finally_KeepsOpen(closed) == closed
\* lines 746-749: finally: cursor.close(); conn.close()
Finally(closed) == TRUE

\* analyze_and_store raises (lines 731-735): main_loop prints and goes on with the
\* next symbol; an exception the except clause does not name leaves through finally
AnalyzeRaises ==
    /\ pc = "analyze"
    /\ cycle <= MaxCycles
    /\ Len(caught) < MaxFaults
    /\ \E e \in AnalysisFaults :
          IF CaughtByLoop(e)
          THEN /\ caught' = Append(caught, [cycle |-> cycle, symbol |-> Symbols[sym_idx],
                                            exception |-> e])
               /\ AfterSymbol(<<>>)
               /\ conn_closed' = conn_closed
          ELSE /\ pc' = "crashed"
               /\ conn_closed' = Finally(conn_closed)
               /\ UNCHANGED <<caught, sym_idx, pending>>
    /\ quote' = <<None, None>>
    /\ raw_tickers' = <<None, None>>
    /\ last_check' = None
    /\ last_close' = None
    /\ UNCHANGED <<SIMULATION, STARTING_BALANCE, now, open_trades, profit_tracking,
                   arbitrage_opportunities, cycle, update_calls, gateway_log, threshold,
                   sized, api_call, market>>

NextFault ==
    \/ InitializeBalance
    \/ AnalyzeAndStore
    \/ AnalyzeRaises
    \/ CheckOpenPosition
    \/ RefreshLedger

\* a market that answers one spread below the threshold and one above zero
FaultQuotes == {<<102, 101>>, <<102, 102>>}
InitFault ==
    /\ SIMULATION = TRUE
    /\ LoadedIn(<<>>, Frac(SPREAD_NUM, SPREAD_DEN),
                TickerPairs(FaultQuotes) \cup FailedFetches, CONFIGURED_STARTING_BALANCE)
\* the loop keeps running: every handler returns and the next statement is executed
SpecFault == InitFault /\ [][NextFault]_vars /\ WF_vars(NextFault)

\* Ctrl-C between two statements of the loop (lines 744-749): the units of work
\* done so far stay committed, the loop is left through except and finally
KeyboardInterrupt ==
    /\ pc \in {"analyze", "check", "refresh"}
    /\ pc' = "stopped"
    /\ conn_closed' = Finally(conn_closed)
    /\ UNCHANGED <<SIMULATION, STARTING_BALANCE, now, open_trades, profit_tracking,
                   arbitrage_opportunities, sym_idx, pending, cycle, update_calls,
                   gateway_log, threshold, quote, raw_tickers, last_check, last_close,
                   sized, api_call, caught, market>>

\* Ctrl-C inside close_trade, after the commit of line 451 and before the call of
\* update_profit_tracking of line 454: the row is closed, the ledger not updated
InterruptedClose ==
    /\ pc = "check"
    /\ pending # <<>>
    /\ \E tickers \in FetchAnswers(~TimedOut(open_trades[Head(pending)], now)),
          sweep \in SweepAnswers(SIMULATION) :
        \E close_tickers \in
              FetchAnswers(AttemptsClose(open_trades[Head(pending)],
                                         CheckQuote(open_trades[Head(pending)],
                                                    tickers, now), now)) :
          LET trade_id == Head(pending)
              row == open_trades[trade_id]
              q == CheckQuote(row, tickers, now)
              db == close_trade(DB, trade_id, close_tickers, sweep, SIMULATION,
                                STARTING_BALANCE, now)
          IN  /\ AttemptsClose(row, q, now)
              /\ db.trades # open_trades
              /\ open_trades' = db.trades
              /\ gateway_log' = db.log
              /\ last_check' = Some([trade_id |-> trade_id,
                                     hold_time |-> now - row.timestamp_open,
                                     quote |-> q])
              /\ last_close' =
                    Some([trade_id |-> trade_id,
                          quote |-> CloseQuote(open_trades, trade_id, close_tickers)])
    /\ pc' = "stopped"
    /\ conn_closed' = Finally(conn_closed)
    /\ UNCHANGED <<SIMULATION, STARTING_BALANCE, now, profit_tracking,
                   arbitrage_opportunities, sym_idx, pending, cycle, update_calls,
                   threshold, quote, raw_tickers, sized, api_call, caught, market>>

NextInterrupt ==
    \/ InitializeBalance
    \/ AnalyzeAndStore
    \/ CheckOpenPosition
    \/ RefreshLedger
    \/ KeyboardInterrupt
    \/ InterruptedClose

SpecInterrupt == InitFault /\ [][NextInterrupt]_vars

---------------------------------------------------------------------------
\* The loop in other markets

\* prices around 2000 USDT with STARTING_BALANCE (line 16) set to 5000.0, so that
\* the sizer yields one unit
ConserveQuotes == {<<2002, 2001>>, <<1998, 1998>>, <<2001, 2000>>, <<1999, 1999>>}
\* a spot price that triples
SpikeQuotes == {<<102, 101>>, <<300, 300>>}
MarketScenarios ==
    {[quotes |-> ConserveQuotes, starting |-> Usdt(5000)],
     [quotes |-> SpikeQuotes, starting |-> CONFIGURED_STARTING_BALANCE]}

InitMarkets ==
    /\ SIMULATION = TRUE
    /\ \E m \in MarketScenarios :
          LoadedIn(<<>>, Frac(SPREAD_NUM, SPREAD_DEN),
                   TickerPairs(m.quotes) \cup {<<None, None>>}, m.starting)
NextMarkets ==
    \/ InitializeBalance
    \/ AnalyzeAndStore
    \/ CheckOpenPosition
    \/ RefreshLedger
SpecMarkets == InitMarkets /\ [][NextMarkets]_vars

---------------------------------------------------------------------------
\* The ledger on its own: update_profit_tracking called with any delta, in either
\* mode, before or after initialize_balance

Deltas == {0, Usdt(1), 0 - Usdt(1), 0 - Usdt(2000)}
LedgerTickSteps == {SECONDS_PER_DAY}

UpdateProfitTrackingCall ==
    /\ Len(update_calls) < MaxLedgerCalls
    /\ \E d \in Deltas :
          /\ profit_tracking' = update_profit_tracking(profit_tracking, STARTING_BALANCE,
                                                       d, now)
          /\ update_calls' = Append(update_calls,
                                    LedgerCall(profit_tracking, STARTING_BALANCE, d, 0))
    /\ UNCHANGED <<SIMULATION, STARTING_BALANCE, now, open_trades,
                   arbitrage_opportunities, pc, sym_idx, pending, cycle, gateway_log,
                   threshold, quote,
                   raw_tickers, last_check, last_close, sized, api_call, caught, conn_closed, market>>

LedgerTick ==
    /\ \E d \in LedgerTickSteps :
          now + d <= MaxLedgerDays * SECONDS_PER_DAY /\ now' = now + d
    /\ UNCHANGED <<SIMULATION, STARTING_BALANCE, open_trades, profit_tracking,
                   arbitrage_opportunities, pc, sym_idx, pending, cycle, update_calls,
                   gateway_log, threshold, quote,
                   raw_tickers, last_check, last_close, sized, api_call, caught, conn_closed, market>>

InitLedger == SIMULATION \in BOOLEAN /\ Loaded
NextLedger == InitializeBalance \/ UpdateProfitTrackingCall \/ LedgerTick
SpecLedger == InitLedger /\ [][NextLedger]_vars

---------------------------------------------------------------------------
\* The first cycle of the program on a database that already holds one open trade
\* of any of the kinds close_trade handles, with close_trade also called directly
\* on any id between two handlers

ExistingRows ==
    {create_open_trade(<<>>, "BTCUSDT", m, sd, e, 5, 0)[1] :
        m \in {"MARGIN", "FUTURES"}, sd \in {"LONG", "SHORT"}, e \in {100, 102}}

CloseTradeCall ==
    /\ pc \in {"analyze", "refresh"}
    /\ \E trade_id \in 1..Len(open_trades), tickers \in Tickers,
          sweep \in SweepAnswers(SIMULATION) :
          LET db == close_trade(DB, trade_id, tickers, sweep, SIMULATION,
                                STARTING_BALANCE, now)
          IN  /\ open_trades' = db.trades
              /\ profit_tracking' = db.rows
              /\ update_calls' = db.calls
              /\ gateway_log' = db.log
              /\ last_close' = Some([trade_id |-> trade_id,
                                     quote |-> CloseQuote(open_trades, trade_id, tickers)])
    /\ last_check' = None
    /\ UNCHANGED <<SIMULATION, STARTING_BALANCE, now, arbitrage_opportunities, pc,
                   sym_idx, pending, cycle, threshold, quote, raw_tickers, sized,
                   api_call, caught, conn_closed, market>>

InitExisting ==
    /\ SIMULATION = TRUE
    /\ \E row \in ExistingRows : LoadedWith(<<row>>, Frac(SPREAD_NUM, SPREAD_DEN))
CloseTick ==
    /\ pc \in {"analyze", "refresh"}
    /\ \E d \in TickSteps : now + d <= MaxTime /\ now' = now + d
    /\ UNCHANGED <<SIMULATION, STARTING_BALANCE, open_trades, profit_tracking,
                   arbitrage_opportunities, pc, sym_idx, pending, cycle, update_calls,
                   gateway_log, threshold, quote,
                   raw_tickers, last_check, last_close, sized, api_call, caught, conn_closed, market>>

NextExisting ==
    \/ InitializeBalance
    \/ AnalyzeAndStore
    \/ CheckOpenPosition
    \/ CloseTradeCall
    \/ CloseTick
SpecExisting == InitExisting /\ [][NextExisting]_vars

---------------------------------------------------------------------------
\* The loop running for ever (while True, lines 725-742)

\* the back edge of `while True`: the model counts the cycles up to MaxCycles,
\* then folds the counter and the history of ledger calls back
WhileTrue ==
    /\ pc = "analyze"
    /\ cycle > MaxCycles
    /\ cycle' = 1
    /\ update_calls' = <<>>
    /\ UNCHANGED <<SIMULATION, STARTING_BALANCE, now, open_trades, profit_tracking,
                   arbitrage_opportunities, pc, sym_idx, pending, gateway_log,
                   threshold, quote, raw_tickers, last_check, last_close, sized,
                   api_call, caught, conn_closed, market>>

NextLoop ==
    \/ InitializeBalance
    \/ AnalyzeAndStore
    \/ CheckOpenPosition
    \/ RefreshLedger
    \/ Tick
    \/ WhileTrue

\* close_trade, called for the timed-out row `trade_id`, gets both prices
TimedOutCloseFetched(trade_id) ==
    /\ CheckOpenPosition
    /\ pending # <<>>
    /\ Head(pending) = trade_id
    /\ TimedOut(open_trades[trade_id], now)
    /\ last_close' # None
    /\ ~QuoteAbsent(last_close'[1].quote)

\* the loop keeps cycling (every statement returns), the quote of a tracked
\* symbol is obtained again and again, and so are the prices close_trade asks for
FairLoop ==
    /\ WF_vars(NextLoop)
    /\ SF_vars(AnalyzeAndStore /\ ~QuoteAbsent(quote'))
    /\ \A trade_id \in 1..MaxTrades : SF_vars(TimedOutCloseFetched(trade_id))

\* a market that answers a spread above the threshold, or nothing
LoopQuotes == {<<100, 101>>}
\* the database already holds one open trade of any kind
InitLoop ==
    /\ SIMULATION = TRUE
    /\ \E row \in ExistingRows :
          LoadedIn(<<row>>, Frac(SPREAD_NUM, SPREAD_DEN),
                   TickerPairs(LoopQuotes) \cup {<<None, None>>},
                   CONFIGURED_STARTING_BALANCE)
SpecLoop == InitLoop /\ [][NextLoop]_vars /\ FairLoop

---------------------------------------------------------------------------
\* The classification of lines 612-619 on its own, for any threshold >= 0: one
\* evaluation computes the spread and the action and stores them (lines 679-696)

Thresholds == {Frac(0, 1), Frac(SPREAD_NUM, SPREAD_DEN), Frac(1, 1)}
ClassifyQuotes == {<<100, f>> : f \in 98..102} \cup {<<10000, f>> : f \in 9996..10004}

ClassifyCall ==
    /\ \E symbol \in SymbolSet, q \in ClassifyQuotes :
          /\ quote' = <<Some(q[1]), Some(q[2])>>
          /\ raw_tickers' = <<Ticker(q[1]), Ticker(q[2])>>
          /\ arbitrage_opportunities' =
                [arbitrage_opportunities EXCEPT ![symbol] =
                    Some(OpportunityRow(symbol, q[1], q[2],
                                        Classify(SpreadPercent(q[1], q[2]), threshold),
                                        None, now))]
    /\ UNCHANGED <<SIMULATION, STARTING_BALANCE, now, open_trades, profit_tracking, pc,
                   sym_idx, pending, cycle, update_calls, gateway_log, threshold,
                   last_check, last_close, sized, api_call, caught, conn_closed, market>>

InitClassify == SIMULATION = TRUE /\ \E t \in Thresholds : LoadedWith(<<>>, t)
SpecClassify == InitClassify /\ [][ClassifyCall]_vars

---------------------------------------------------------------------------
\* The sizing on its own: the opening branch of analyze_and_store (lines 649-676,
\* the same at 623-646) entered for any symbol with any available balance and any
\* spot price: calculate_position_size, then create_open_trade when quantity > 0

SizerBalances == {0, Usdt(20) - 1, Usdt(20), Usdt(25), Usdt(50), Usdt(1000)}
SizerPrices == {1, 3, 6, 7, 100}

SizeAndOpen ==
    /\ \E symbol \in SymbolSet, side \in {"LONG", "SHORT"},
          balance \in SizerBalances, price \in SizerPrices :
          LET step_size == ExchangeStepSize(symbol)
              quantity == calculate_position_size(balance, price, step_size)
          IN  /\ quantity > 0 => Len(open_trades) < MaxSized
              /\ sized' = Some([symbol |-> symbol, balance |-> balance, price |-> price,
                                step_size |-> step_size, quantity |-> quantity])
              /\ open_trades' =
                    IF quantity > 0
                    THEN create_open_trade(open_trades, symbol, "MARGIN", side, price,
                                           quantity, now)
                    ELSE open_trades
    /\ UNCHANGED <<SIMULATION, STARTING_BALANCE, now, profit_tracking,
                   arbitrage_opportunities, pc, sym_idx, pending, cycle, update_calls,
                   gateway_log, threshold, quote, raw_tickers, last_check, last_close,
                   api_call, caught, conn_closed, market>>

InitSizer == SIMULATION \in BOOLEAN /\ Loaded
SpecSizer == InitSizer /\ [][SizeAndOpen]_vars

---------------------------------------------------------------------------
\* safe_api_call on its own: one call, the wrapped operation answering or raising
\* anything at each invocation

SafeApiCallBegin ==
    /\ api_call = None
    /\ \E func \in ApiFuncs : api_call' = Some(ApiFrame(func))
    /\ UNCHANGED <<SIMULATION, STARTING_BALANCE, now, open_trades, profit_tracking,
                   arbitrage_opportunities, pc, sym_idx, pending, cycle, update_calls,
                   gateway_log, threshold, quote, raw_tickers, last_check, last_close,
                   sized, caught, conn_closed, market>>

SafeApiCallAttempt ==
    /\ api_call # None
    /\ api_call[1].status = "running"
    /\ api_call[1].attempt < MAX_RETRIES
    /\ \E outcome \in Outcomes : api_call' = Some(SafeApiAttempt(api_call[1], outcome))
    /\ UNCHANGED <<SIMULATION, STARTING_BALANCE, now, open_trades, profit_tracking,
                   arbitrage_opportunities, pc, sym_idx, pending, cycle, update_calls,
                   gateway_log, threshold, quote, raw_tickers, last_check, last_close,
                   sized, caught, conn_closed, market>>

InitRetry == SIMULATION = TRUE /\ Loaded
NextRetry == SafeApiCallBegin \/ SafeApiCallAttempt
SpecRetry == InitRetry /\ [][NextRetry]_vars

---------------------------------------------------------------------------
\* Properties

OpenRowsOf(symbol) ==
    {i \in 1..Len(open_trades) : open_trades[i].symbol = symbol /\ ~open_trades[i].closed}

\* the step is a run of analyze_and_store that obtained a quote
Evaluates == /\ pc = "analyze"
             /\ pc' # "analyze" \/ sym_idx' # sym_idx
             /\ ~QuoteAbsent(quote')
EvalSymbol == Symbols[sym_idx]
EvalSpot == quote'[1][1]
EvalFutures == quote'[2][1]
\* (futures - spot) / spot * 100 against the threshold, cross-multiplied
SpreadAbove == (EvalFutures - EvalSpot) * 100 * threshold.den > threshold.num * EvalSpot
SpreadBelow == (EvalFutures - EvalSpot) * 100 * threshold.den < (0 - threshold.num) * EvalSpot
SizedQuantity ==
    calculate_position_size(
        get_available_balance(SIMULATION, profit_tracking, STARTING_BALANCE, 0),
        EvalSpot, ExchangeStepSize(EvalSymbol))
OpensRow(side) ==
    /\ Len(open_trades') = Len(open_trades) + 1
    /\ LET r == open_trades'[Len(open_trades')]
       IN  /\ r.symbol = EvalSymbol
           /\ r.market_type = "MARGIN"
           /\ r.side = side
           /\ r.entry_price = EvalSpot
           /\ r.quantity = SizedQuantity
           /\ ~r.closed

\* C1: in every reachable state each symbol has at most one OpenTrade row with
\* closed = false (so re-evaluating a symbol that holds an open position does not
\* create a second row).
C1_OneOpenTradePerSymbol ==
    \A symbol \in SymbolSet : Cardinality(OpenRowsOf(symbol)) <= 1

\* C2: an evaluation whose spread percent is strictly above the threshold, with
\* no non-closed row for the symbol and a position size > 0, creates a new
\* non-closed MARGIN / LONG row for the symbol.
C2_ShortBasisOpens ==
    [][(/\ Evaluates
        /\ SpreadAbove
        /\ OpenRowsOf(EvalSymbol) = {}
        /\ SizedQuantity > 0) => OpensRow("LONG")]_vars

\* C3: an evaluation whose spread percent is strictly below minus the threshold,
\* with no non-closed row for the symbol and a position size > 0, creates a new
\* non-closed MARGIN / SHORT row for the symbol, its entry_price the observed spot
\* price and its quantity the sized quantity.
C3_LongBasisOpens ==
    [][(/\ Evaluates
        /\ SpreadBelow
        /\ OpenRowsOf(EvalSymbol) = {}
        /\ SizedQuantity > 0) => OpensRow("SHORT")]_vars

\* C3's case: the only open row of a symbol is the MARGIN / SHORT row that the
\* symbol's latest evaluation opened at its spot price
C3_Witness ==
    \E symbol \in SymbolSet :
        /\ arbitrage_opportunities[symbol] # None
        /\ LET o == arbitrage_opportunities[symbol][1]
           IN  /\ o.action = "BUY_FUTURES"
               /\ o.open_trade_id # None
               /\ OpenRowsOf(symbol) = {o.open_trade_id[1]}
               /\ open_trades[o.open_trade_id[1]].side = "SHORT"
               /\ open_trades[o.open_trade_id[1]].entry_price = o.spot_price
               /\ open_trades[o.open_trade_id[1]].quantity > 0

\* C4: for every spot > 0, futures price and threshold t >= 0 the stored action is
\* the SHORT-basis label exactly when (futures - spot)/spot*100 > t, the LONG-basis
\* label exactly when it is < -t, and HOLD otherwise; the stored spread percent is
\* (futures - spot)/spot*100; equal inputs give equal actions.
C4_Classification ==
    /\ \A symbol \in SymbolSet :
          arbitrage_opportunities[symbol] # None =>
             LET o == arbitrage_opportunities[symbol][1]
                 lhs == (o.futures_price - o.spot_price) * 100 * threshold.den
                 rhs == threshold.num * o.spot_price
             IN  /\ o.action \in {"BUY_MARGIN_SHORT", "BUY_FUTURES", "HOLD"}
                 /\ (o.action = "BUY_MARGIN_SHORT") <=> (lhs > rhs)
                 /\ (o.action = "BUY_FUTURES") <=> (lhs < 0 - rhs)
                 /\ (o.action = "HOLD") <=> (lhs <= rhs /\ lhs >= 0 - rhs)
                 /\ o.spread_percent.num * o.spot_price
                       = (o.futures_price - o.spot_price) * 100 * o.spread_percent.den
    /\ \A s1, s2 \in SymbolSet :
          (/\ arbitrage_opportunities[s1] # None
           /\ arbitrage_opportunities[s2] # None
           /\ arbitrage_opportunities[s1][1].spot_price
                 = arbitrage_opportunities[s2][1].spot_price
           /\ arbitrage_opportunities[s1][1].futures_price
                 = arbitrage_opportunities[s2][1].futures_price)
          => arbitrage_opportunities[s1][1].action = arbitrage_opportunities[s2][1].action

\* C4's case: a spread exactly at a positive threshold has been classified HOLD
\* and a spread below minus the threshold BUY_FUTURES
C4_Witness ==
    /\ threshold.num > 0
    /\ \E s1, s2 \in SymbolSet :
          /\ arbitrage_opportunities[s1] # None
          /\ arbitrage_opportunities[s2] # None
          /\ LET o1 == arbitrage_opportunities[s1][1]
                 o2 == arbitrage_opportunities[s2][1]
             IN  /\ (o1.futures_price - o1.spot_price) * 100 * threshold.den
                       = threshold.num * o1.spot_price
                 /\ o1.action = "HOLD"
                 /\ o2.action = "BUY_FUTURES"

\* C5: a row with closed = true is never changed again by any operation, and no
\* operation changes the symbol, side, entry_price or quantity of any row.
C5_ClosedRowsFrozen ==
    [][/\ Len(open_trades') >= Len(open_trades)
       /\ \A i \in 1..Len(open_trades) :
             /\ open_trades[i].closed => open_trades'[i] = open_trades[i]
             /\ open_trades'[i].symbol = open_trades[i].symbol
             /\ open_trades'[i].side = open_trades[i].side
             /\ open_trades'[i].entry_price = open_trades[i].entry_price
             /\ open_trades'[i].quantity = open_trades[i].quantity]_vars

\* C5's case: a row was closed and analyze_and_store opened another one later
C5_Witness ==
    \E i, j \in 1..Len(open_trades) :
        /\ open_trades[i].closed
        /\ open_trades[j].timestamp_open > open_trades[i].timestamp_close[1]

C7_LatestIsCurrentBalance ==
    (SIMULATION /\ update_calls # <<>>) =>
        get_available_balance(SIMULATION, profit_tracking, STARTING_BALANCE, 0)
            = update_calls[Len(update_calls)].new_balance

\* C8: every call of update_profit_tracking adds one row to profit_tracking and
\* leaves every row written before unchanged.
C8_AppendOnly ==
    [][Len(update_calls') = Len(update_calls) + 1 =>
          /\ Len(profit_tracking') = Len(profit_tracking) + 1
          /\ \A i \in 1..Len(profit_tracking) : profit_tracking'[i] = profit_tracking[i]]_vars

C10_LongProfit ==
    \A i \in 1..Len(open_trades) :
        (open_trades[i].closed /\ open_trades[i].side = "LONG") =>
            LET r == open_trades[i]
                fee == IF r.market_type = "MARGIN" THEN MARGIN_FEE ELSE FUTURES_FEE
                profit == r.close_price[1] * r.quantity * (FeeOne - fee)
                          - r.entry_price * r.quantity * (FeeOne + fee)
            IN  /\ r.profit_usdt = profit
                /\ \E k \in 1..Len(update_calls) :
                      /\ update_calls[k].trade_id = i
                      /\ update_calls[k].profit_change = profit

\* C11: when close_trade closes a non-closed row whose side is SHORT, the profit
\* stored in the row and handed to update_profit_tracking is
\* entryPrice*qty*(1-fee) - exitPrice*qty*(1+fee), where fee is the margin fee
\* rate and exitPrice the fetched spot price for a MARGIN row, and fee is the
\* futures fee rate and exitPrice the fetched futures price for a FUTURES row.
C11_ShortProfit ==
    [][\A i \in 1..Len(open_trades) :
          (/\ ~open_trades[i].closed
           /\ open_trades'[i].closed
           /\ open_trades[i].side = "SHORT") =>
              /\ last_close' # None
              /\ last_close'[1].trade_id = i
              /\ last_close'[1].quote[1] # None
              /\ last_close'[1].quote[2] # None
              /\ LET r == open_trades'[i]
                     margin == r.market_type = "MARGIN"
                     fee == IF margin THEN MARGIN_FEE ELSE FUTURES_FEE
                     exit == IF margin THEN last_close'[1].quote[1][1]
                             ELSE last_close'[1].quote[2][1]
                     profit == r.entry_price * r.quantity * (FeeOne - fee)
                               - exit * r.quantity * (FeeOne + fee)
                 IN  /\ r.market_type \in {"MARGIN", "FUTURES"}
                     /\ r.close_price = Some(exit)
                     /\ r.profit_usdt = profit
                     /\ Len(update_calls') = Len(update_calls) + 1
                     /\ update_calls'[Len(update_calls')].trade_id = i
                     /\ update_calls'[Len(update_calls')].profit_change = profit]_vars

\* C11's case: a FUTURES SHORT row and a MARGIN SHORT row have both been closed,
\* the latest on a quote whose spot and futures prices differ
C11_Witness ==
    /\ last_close # None
    /\ last_close[1].quote[1] # None
    /\ last_close[1].quote[1] # last_close[1].quote[2]
    /\ last_close[1].trade_id \in 1..Len(open_trades)
    /\ open_trades[last_close[1].trade_id].closed
    /\ \E i, j \in 1..Len(open_trades) :
          /\ open_trades[i].closed /\ open_trades[j].closed
          /\ open_trades[i].side = "SHORT" /\ open_trades[j].side = "SHORT"
          /\ open_trades[i].market_type = "FUTURES"
          /\ open_trades[j].market_type = "MARGIN"
          /\ open_trades[i].profit_usdt # 0 /\ open_trades[j].profit_usdt # 0

\* C12: calculate_position_size returns either 0 or a quantity whose notional
\* quantity * price is at least the minimum notional MIN_POSITION_SIZE.
C12_NotionalAtLeastMinimum ==
    sized # None =>
        \/ sized[1].quantity = 0
        \/ sized[1].quantity * sized[1].price * FeeOne >= MIN_POSITION_SIZE

\* C13: with riskAmount = balance * riskFraction / 2, calculate_position_size
\* returns 0 when riskAmount is below the minimum notional and otherwise
\* floor((riskAmount / price) / lotStep) * lotStep; the quantity of every
\* open_trades row is a non-negative multiple of the lot step reported for the
\* row's symbol and does not exceed riskAmount / price.
C13_SizedQuantity ==
    /\ sized # None =>
          LET z == sized[1]
              twice_risk == z.balance * RISK_PER_TRADE
              unit == 2 * z.price * FeeOne
          IN  IF twice_risk < 2 * MIN_POSITION_SIZE
              THEN z.quantity = 0
              ELSE /\ z.quantity >= 0
                   /\ z.quantity % z.step_size = 0
                   /\ z.quantity * unit <= twice_risk
                   /\ (z.quantity + z.step_size) * unit > twice_risk
    /\ \A i \in 1..Len(open_trades) :
          /\ open_trades[i].quantity >= 0
          /\ open_trades[i].quantity % ExchangeStepSize(open_trades[i].symbol) = 0
    /\ (sized # None /\ sized[1].quantity > 0) =>
          LET r == open_trades[Len(open_trades)]
          IN  /\ r.symbol = sized[1].symbol
              /\ r.quantity = sized[1].quantity
              /\ r.quantity * 2 * r.entry_price * FeeOne
                    <= sized[1].balance * RISK_PER_TRADE

\* C13's case: a row was opened with a quantity rounded down to a lot step of 2,
\* strictly below riskAmount / price
C13_Witness ==
    /\ sized # None
    /\ sized[1].step_size = 2
    /\ sized[1].quantity > 0
    /\ (sized[1].quantity + 1) * 2 * sized[1].price * FeeOne
          <= sized[1].balance * RISK_PER_TRADE
    /\ open_trades # <<>>
    /\ open_trades[Len(open_trades)].quantity = sized[1].quantity

\* C14: for each window W of 1, 7 and 30 days, the trailing-window profit written
\* by update_profit_tracking is new_balance minus the balance of the snapshot
\* with the oldest timestamp among the snapshots whose timestamp is >= now - W,
\* and 0 when there is no such snapshot.
C14_TrailingWindows ==
    [][Len(update_calls') = Len(update_calls) + 1 =>
          LET new_balance == update_calls'[Len(update_calls')].new_balance
              inwin(days) == {i \in 1..Len(profit_tracking) :
                                 profit_tracking[i].timestamp
                                    >= now - days * SECONDS_PER_DAY}
              oldest(days) == {i \in inwin(days) :
                                  \A j \in inwin(days) :
                                      profit_tracking[i].timestamp
                                         <= profit_tracking[j].timestamp}
              expected(days) ==
                  IF inwin(days) = {} THEN {0}
                  ELSE {new_balance - profit_tracking[i].current_balance :
                           i \in oldest(days)}
          IN  \A k \in 1..Len(profit_tracking') :
                  (/\ profit_tracking'[k].current_balance = new_balance
                   /\ profit_tracking'[k].timestamp = now) =>
                      /\ profit_tracking'[k].daily_profit \in expected(1)
                      /\ profit_tracking'[k].weekly_profit \in expected(7)
                      /\ profit_tracking'[k].monthly_profit \in expected(30)]_vars

\* C15: safe_api_call invokes the wrapped operation at most 3 times, returns the
\* response of the first invocation that succeeds without invoking it again,
\* invokes it again only after a failure of one of the classes
\* BinanceAPIException, ConnectionError, TimeoutError, and returns None once all
\* 3 invocations have failed with such a class.
C15_RetryPolicy ==
    /\ [](api_call # None =>
            LET f == api_call[1]
            IN  /\ f.attempt <= 3
                /\ \A k \in 1..Len(f.caught) : f.caught[k] \in CaughtErrors
                /\ f.status = "running" => (f.attempt = Len(f.caught) /\ f.attempt < 3)
                /\ (f.status = "returned" /\ f.result # None) =>
                       f.attempt = Len(f.caught) + 1
                /\ (f.status = "returned" /\ f.result = None) <=>
                       (f.attempt = 3 /\ Len(f.caught) = 3))
    /\ [][(api_call # None /\ api_call' # api_call) =>
             /\ api_call[1].status = "running"
             /\ api_call'[1].attempt = api_call[1].attempt + 1]_vars

\* C15's case: the third invocation answered after two caught failures
C15_Witness ==
    /\ api_call # None
    /\ api_call[1].status = "returned"
    /\ api_call[1].result = Some("response")
    /\ api_call[1].attempt = 3
    /\ Len(api_call[1].caught) = 2

\* C16: a call made through safe_api_call never ends with an exception that
\* reaches the caller, whatever the wrapped operation raises on any invocation:
\* it ends with a response or with None.
C16_NoExceptionEscapes ==
    api_call # None => api_call[1].status # "raised"

\* C17: fetch_prices returns a quote only when both tickers were obtained and
\* parsed; when either is missing or unparsable it returns (None, None), never
\* one price alone, and then analyze_and_store, check_open_positions and
\* close_trade compute no spread from it: nothing is written or closed on it.
C17_BothLegsOrNothing ==
    /\ [](/\ (quote[1] = None) <=> (quote[2] = None)
          /\ IF Parses(raw_tickers[1]) /\ Parses(raw_tickers[2])
             THEN quote = <<Some(raw_tickers[1][1][1]), Some(raw_tickers[2][1][1])>>
             ELSE quote = <<None, None>>
          /\ last_check # None =>
                ((last_check[1].quote[1] = None) <=> (last_check[1].quote[2] = None))
          /\ last_close # None =>
                ((last_close[1].quote[1] = None) <=> (last_close[1].quote[2] = None)))
    /\ [][/\ (/\ pc = "analyze"
              /\ pc' # "analyze" \/ sym_idx' # sym_idx
              /\ quote'[1] = None \/ quote'[2] = None) =>
                /\ arbitrage_opportunities' = arbitrage_opportunities
                /\ open_trades' = open_trades
                /\ profit_tracking' = profit_tracking
          /\ (/\ last_check' # None
              /\ last_check' # last_check \/ pending' # pending
              /\ last_check'[1].quote[1] = None \/ last_check'[1].quote[2] = None
              /\ last_check'[1].hold_time <= MAX_TRADE_DURATION) =>
                /\ last_close' = None
                /\ open_trades' = open_trades
          /\ (/\ last_close' # None
              /\ last_close'[1].quote[1] = None \/ last_close'[1].quote[2] = None) =>
                /\ open_trades' = open_trades
                /\ profit_tracking' = profit_tracking]_vars

\* C17's case: analyze_and_store got exactly one readable ticker for the first
\* symbol of the first cycle, held no price and wrote nothing for the symbol
C17_Witness ==
    /\ Parses(raw_tickers[1]) # Parses(raw_tickers[2])
    /\ quote = <<None, None>>
    /\ cycle = 1
    /\ pc = "analyze"
    /\ sym_idx = 2
    /\ arbitrage_opportunities[Symbols[1]] = None
    /\ open_trades = <<>>

\* C18: for the row an iteration of check_open_positions visits, close_trade is
\* called exactly when (a) now - timestamp_open > MAX_TRADE_DURATION, or (b) the
\* row is MARGIN/LONG and the spread percent of the quote fetched for it is <= 0,
\* or (c) the row is MARGIN/SHORT and that spread percent is >= 0; a row for
\* which none of these holds is left open by the iteration.
C18_CloseTriggers ==
    last_check # None =>
        LET c == last_check[1]
            row == open_trades[c.trade_id]
            fetched == c.quote[1] # None /\ c.quote[2] # None
            spread100 == (c.quote[2][1] - c.quote[1][1]) * 100
            trigger ==
                \/ c.hold_time > 1800
                \/ /\ row.market_type = "MARGIN" /\ row.side = "LONG"
                   /\ fetched /\ spread100 <= 0
                \/ /\ row.market_type = "MARGIN" /\ row.side = "SHORT"
                   /\ fetched /\ spread100 >= 0
        IN  /\ trigger <=> (last_close # None /\ last_close[1].trade_id = c.trade_id)
            /\ ~trigger => (last_close = None /\ ~row.closed)

\* C18's case: a MARGIN/LONG row held for exactly MAX_TRADE_DURATION seconds was
\* visited with a quote whose spread is 0, and close_trade was called and closed it
C18_Witness ==
    /\ last_check # None
    /\ last_close # None
    /\ last_check[1].hold_time = MAX_TRADE_DURATION
    /\ last_check[1].quote[1] # None
    /\ last_check[1].quote[1] = last_check[1].quote[2]
    /\ open_trades[last_check[1].trade_id].side = "LONG"
    /\ open_trades[last_check[1].trade_id].market_type = "MARGIN"
    /\ open_trades[last_check[1].trade_id].closed

\* C19: when the price fetch inside close_trade is absent the closure is
\* deferred: the row is left as it was, with closed = false, no profit is
\* recorded and update_profit_tracking is not called, so the trade is still
\* among the non-closed rows a later check visits.
C19_AbsentFetchDefersClose ==
    [][(/\ last_close' # None
        /\ last_close'[1].quote[1] = None \/ last_close'[1].quote[2] = None) =>
            /\ open_trades' = open_trades
            /\ profit_tracking' = profit_tracking
            /\ update_calls' = update_calls
            /\ gateway_log' = gateway_log
            /\ (~open_trades[last_close'[1].trade_id].closed =>
                   \E k \in 1..Len(OpenIds(open_trades')) :
                       OpenIds(open_trades')[k] = last_close'[1].trade_id)]_vars

\* C19's case: check_open_positions called close_trade for a timed-out row, the
\* fetch inside close_trade was absent and the row is still open with no profit
C19_Witness ==
    /\ last_check # None
    /\ last_close # None
    /\ last_check[1].hold_time > MAX_TRADE_DURATION
    /\ last_close[1].quote = <<None, None>>
    /\ ~open_trades[last_close[1].trade_id].closed
    /\ open_trades[last_close[1].trade_id].profit_usdt = 0
    /\ open_trades[last_close[1].trade_id].close_price = None
    /\ \A k \in 1..Len(update_calls) :
          update_calls[k].trade_id # last_close[1].trade_id

\* C20: every run of analyze_and_store for a tracked symbol starts the close
\* check over all non-closed open_trades rows, of any symbol, whether or not the
\* symbol's own quote was available and whatever its action was.
C20_CloseCheckEverySymbol ==
    [][(/\ pc = "analyze"
        /\ pc' # "analyze" \/ sym_idx' # sym_idx) =>
            pending' = OpenIds(open_trades')]_vars

\* C21: in live mode every open_trades row analyze_and_store creates comes with
\* the submission, in the same evaluation, of both legs: the margin-side order
\* (with the borrow for a MARGIN/SHORT row) and the futures-side order.
C21_LegsSubmittedBeforeRow ==
    [][(/\ ~SIMULATION
        /\ pc = "analyze"
        /\ Len(open_trades') = Len(open_trades) + 1) =>
            LET r == open_trades'[Len(open_trades')]
                legs == IF r.side = "LONG"
                        THEN {<<"margin_buy", r.symbol>>, <<"futures_sell", r.symbol>>}
                        ELSE {<<"margin_loan", r.symbol>>, <<"margin_sell", r.symbol>>,
                              <<"futures_buy", r.symbol>>}
            IN  legs \subseteq gateway_log']_vars

\* C22: arbitrage_opportunities holds at most one row per symbol, and an
\* evaluation that obtained a quote leaves in the row of its symbol exactly its own
\* spot price, futures price, spread percent, action, trade_executed flag and
\* open_trade_id (the id of the row it opened, or none), the other symbols' rows
\* being left as they were.
C22_LatestEvaluationRow ==
    /\ [](\A s \in SymbolSet :
            arbitrage_opportunities[s] # None => arbitrage_opportunities[s][1].symbol = s)
    /\ [][Evaluates =>
            /\ arbitrage_opportunities'[EvalSymbol] # None
            /\ LET r == arbitrage_opportunities'[EvalSymbol][1]
               IN  /\ r.spot_price = EvalSpot
                   /\ r.futures_price = EvalFutures
                   /\ r.spread_percent.num * EvalSpot =
                         (EvalFutures - EvalSpot) * 100 * r.spread_percent.den
                   /\ r.action = (IF SpreadAbove THEN "BUY_MARGIN_SHORT"
                                  ELSE IF SpreadBelow THEN "BUY_FUTURES" ELSE "HOLD")
                   /\ r.trade_executed = (SpreadAbove \/ SpreadBelow)
                   /\ r.open_trade_id =
                         (IF Len(open_trades') > Len(open_trades)
                          THEN Some(Len(open_trades')) ELSE None)
            /\ \A s \in SymbolSet \ {EvalSymbol} :
                  arbitrage_opportunities'[s] = arbitrage_opportunities[s]]_vars
\* the row of a symbol has been overwritten by a later evaluation: it says HOLD
\* and carries no open_trade_id while the trade an earlier evaluation of the
\* symbol opened is still in open_trades
C22_Witness ==
    \E s \in SymbolSet :
        /\ arbitrage_opportunities[s] # None
        /\ arbitrage_opportunities[s][1].action = "HOLD"
        /\ arbitrage_opportunities[s][1].open_trade_id = None
        /\ arbitrage_opportunities[s][1].timestamp > 0
        /\ \E i \in 1..Len(open_trades) :
              open_trades[i].symbol = s /\ open_trades[i].timestamp_open = 0

\* the calls update_profit_tracking(0.0) of line 738 made so far
RECURSIVE RefreshCallsFrom(_, _)
RefreshCallsFrom(calls, i) ==
    IF i > Len(calls) THEN 0
    ELSE (IF calls[i].trade_id = 0 /\ calls[i].profit_change = 0 THEN 1 ELSE 0)
         + RefreshCallsFrom(calls, i + 1)
RefreshCalls == RefreshCallsFrom(update_calls, 1)

\* C23: every cycle of main_loop calls update_profit_tracking(0) exactly once,
\* after the last tracked symbol (and its close check) has been processed and
\* before the next cycle starts, whether or not a trade was opened or closed: the
\* cycles started so far and the refresh calls made so far go together, a refresh
\* call is made only from the end of the symbol list, and a new cycle starts only
\* with that call.
C23_RefreshOncePerCycle ==
    /\ [](pc \in {"analyze", "check", "refresh"} => RefreshCalls = cycle - 1)
    /\ [][RefreshCalls' # RefreshCalls =>
            /\ pc = "refresh" /\ sym_idx = Len(Symbols) /\ pending = <<>>
            /\ RefreshCalls' = RefreshCalls + 1
            /\ cycle' = cycle + 1 /\ pc' = "analyze" /\ sym_idx' = 1
            /\ UNCHANGED open_trades]_vars
    /\ [][(pc = "analyze" /\ pc' = "refresh") \/ (pc = "check" /\ pc' = "refresh") =>
            sym_idx = Len(Symbols) /\ pending' = <<>> /\ cycle' = cycle]_vars
    /\ [][sym_idx' # sym_idx =>
            \/ pc \in {"analyze", "check"} /\ sym_idx' = sym_idx + 1 /\ pc' = "analyze"
            \/ pc = "refresh" /\ sym_idx' = 1]_vars
\* two cycles done, one in which a trade was closed and one without any ledger
\* call but the refresh
C23_Witness ==
    /\ cycle = 3
    /\ RefreshCalls = 2
    /\ Len(update_calls) = 3
    /\ \E i \in 1..Len(open_trades) : open_trades[i].closed

\* C26: when the quote of the evaluated symbol is absent, analyze_and_store
\* leaves the persisted state as it was: no open_trades row is created or closed
\* (no close check is started), the arbitrage_opportunities row of the symbol is
\* not written and no ledger snapshot is added.
C26_AbsentQuoteFrame ==
    [][(/\ pc = "analyze"
        /\ pc' # "analyze" \/ sym_idx' # sym_idx
        /\ QuoteAbsent(fetch_prices(raw_tickers'[1], raw_tickers'[2]))) =>
            /\ open_trades' = open_trades
            /\ arbitrage_opportunities' = arbitrage_opportunities
            /\ profit_tracking' = profit_tracking
            /\ update_calls' = update_calls
            /\ pending' = <<>>
            /\ pc' # "check"]_vars
\* the evaluation of the first symbol of the second cycle got no quote while a
\* row opened earlier had outlived MAX_TRADE_DURATION and the symbol had its
\* arbitrage_opportunities row on file
C26_Witness ==
    /\ pc = "analyze"
    /\ sym_idx = 2
    /\ cycle = 2
    /\ last_check = None
    /\ QuoteAbsent(quote)
    /\ arbitrage_opportunities[Symbols[1]] # None
    /\ \E i \in 1..Len(open_trades) :
          ~open_trades[i].closed /\ now - open_trades[i].timestamp_open > 1800

\* C27: in simulated mode no cycle ever invokes a state-changing gateway
\* operation: no margin or futures order, no borrow or repay, no wallet transfer.
C27_SimulationSubmitsNothing ==
    SIMULATION => gateway_log = {}
\* a simulated run that opened a second row for a symbol already holding one (the
\* case in which live mode submits the opening legs) and closed a row (the case
\* in which live mode submits the closing orders)
C27_Witness ==
    /\ SIMULATION
    /\ gateway_log = {}
    /\ \E i, j \in 1..Len(open_trades) :
          /\ i < j
          /\ open_trades[i].symbol = Symbols[1]
          /\ open_trades[j].symbol = Symbols[1]
          /\ open_trades[i].timestamp_open < open_trades[j].timestamp_open
          /\ open_trades[i].closed
          /\ open_trades[i].timestamp_close[1] >= open_trades[j].timestamp_open

C25_InterruptStopsCleanly ==
    /\ [](pc = "stopped" <=> conn_closed)
    /\ [][pc = "stopped" => UNCHANGED vars]_vars
    /\ [][(pc # "stopped" /\ pc' = "stopped") =>
            /\ pc \in {"analyze", "check", "refresh"}
            /\ Len(open_trades') = Len(open_trades)
            /\ \A i \in 1..Len(open_trades) :
                  \/ open_trades'[i] = open_trades[i]
                  \/ ~open_trades[i].closed /\ open_trades'[i].closed
            /\ profit_tracking' = profit_tracking
            /\ arbitrage_opportunities' = arbitrage_opportunities
            /\ update_calls' = update_calls]_vars
\* the loop was interrupted with a row opened, a row closed and its ledger
\* snapshot written
C25_Witness ==
    /\ pc = "stopped"
    /\ conn_closed
    /\ Len(profit_tracking) = 2
    /\ \E i, j \in 1..Len(open_trades) : open_trades[i].closed /\ ~open_trades[j].closed

TimedOutOpenRows ==
    {i \in 1..Len(open_trades) :
        ~open_trades[i].closed /\ now - open_trades[i].timestamp_open > 1800}

\* C28: while the loop keeps cycling and price fetches keep succeeding now and
\* then, every open_trades row is eventually closed once its hold time exceeds
\* MAX_TRADE_DURATION, and no later than the first close check of the row made
\* after that in which close_trade gets its prices.
C28_EventuallyClosed ==
    /\ (TimedOutOpenRows # {}) ~> (TimedOutOpenRows = {})
    /\ [][(/\ pc = "check"
            /\ last_check' # None
            /\ last_check'[1].hold_time > 1800
            /\ last_close' # None
            /\ ~QuoteAbsent(last_close'[1].quote)) =>
                open_trades'[last_check'[1].trade_id].closed]_vars
\* a row that the close check has just closed on its hold time alone (a row the
\* spread never closes: MARGIN/LONG under a positive spread)
C28_Witness ==
    /\ last_check # None
    /\ last_check[1].hold_time > 1800
    /\ last_close # None
    /\ ~QuoteAbsent(last_close[1].quote)
    /\ open_trades[last_check[1].trade_id].closed
    /\ open_trades[last_check[1].trade_id].side = "LONG"
    /\ open_trades[last_check[1].trade_id].market_type = "MARGIN"

\* the sum of the recorded profit of the closed rows
RECURSIVE ClosedProfitFrom(_, _)
ClosedProfitFrom(trades, i) ==
    IF i > Len(trades) THEN 0
    ELSE (IF trades[i].closed THEN trades[i].profit_usdt ELSE 0)
         + ClosedProfitFrom(trades, i + 1)
\* no ledger call so far has brought the balance down to the floor of zero
FloorNeverHit == \A k \in 1..Len(update_calls) : update_calls[k].new_balance > 0

\* C29: in simulated mode, as long as the zero floor has never been hit, the
\* current balance (the one get_available_balance reads) equals STARTING_BALANCE
\* plus the sum of the recorded profit of all closed open_trades rows.
C29_LedgerConservation ==
    (SIMULATION /\ FloorNeverHit) =>
        LastBalance(profit_tracking, STARTING_BALANCE) =
            STARTING_BALANCE + ClosedProfitFrom(open_trades, 1)

\* the entry notional of the non-closed rows, in 1e-5 USDT
RECURSIVE OpenNotionalFrom(_, _)
OpenNotionalFrom(trades, i) ==
    IF i > Len(trades) THEN 0
    ELSE (IF trades[i].closed THEN 0
          ELSE trades[i].entry_price * trades[i].quantity * FeeOne)
         + OpenNotionalFrom(trades, i + 1)

\* C30: the total entry notional (entry_price * quantity) of the non-closed
\* open_trades rows, all symbols together, never exceeds the current available
\* balance (in simulated mode, the balance get_available_balance reads).
C30_CapitalBound ==
    SIMULATION =>
        OpenNotionalFrom(open_trades, 1) <= LastBalance(profit_tracking, STARTING_BALANCE)

\* C31: in every arbitrage_opportunities row trade_executed is true only if the
\* evaluation created an open_trades row: trade_executed implies that
\* open_trade_id is the id of an existing open_trades row of the same symbol.
C31_ExecutedHasTrade ==
    \A s \in SymbolSet :
        (arbitrage_opportunities[s] # None /\ arbitrage_opportunities[s][1].trade_executed) =>
            /\ arbitrage_opportunities[s][1].open_trade_id # None
            /\ arbitrage_opportunities[s][1].open_trade_id[1] \in 1..Len(open_trades)
            /\ open_trades[arbitrage_opportunities[s][1].open_trade_id[1]].symbol = s

====
